---- MODULE Spec2Model ----
(***************************************************************************)
(* The browser tool server (server.py) and the Browser class (browser.py)  *)
(* as a state machine.                                                     *)
(*                                                                         *)
(* All tool handlers are coroutines of ONE asyncio event loop: a task runs *)
(* from one suspending await to the next without interruption, so every    *)
(* action below is one such segment (the resumption of an await up to the  *)
(* next await, or to the return).  browser_map_lock is a threading.Lock:   *)
(* acquiring it while it is held does not suspend the coroutine, it stops  *)
(* the loop's thread (variable blocked).                                   *)
(*                                                                         *)
(* The page engine (Playwright) and the upload sink are external: each of  *)
(* their calls is a nondeterministic choice among its outcomes.            *)
(***************************************************************************)
EXTENDS Naturals, Sequences, FiniteSets, TLC

(* ------------------------------ bounds -------------------------------- *)
\* calls of mutating tools issued in one run
MaxCalls == 2
\* browser.init() failures in one run
MaxInitFail == 1
\* new pages (popups) the engine opens in one run
MaxPopups == 1

(* ------------------------- program constants -------------------------- *)
retries == 3

Tasks == {"t1", "t2"}
Ids == {"A", "B"}
None == "None"

MutatingTools ==
  {"visit_page", "scroll_up", "scroll_down", "fill_form", "click_text", "back"}
Tools == MutatingTools \cup {"get_last_screenshot"}

\* what the sink answers for an uploaded screenshot
ShotURLs == {"shot1.png", "shot2.png"}
\* A url is the sequence of its pieces, the scheme first when it has one.
NoURL == << >>
BlankURL == <<"about:blank">>
SiteURL == <<"http://", "example.com">>
NextURL == <<"http://", "example.com/next">>
FileURL == <<"file://", "/srv/page.html">>

MaxInstances == Cardinality(Ids) + MaxInitFail
Instances == 1..MaxInstances

(* --------------------------- Python values ---------------------------- *)
\* A str is the sequence of its pieces: literal fragments of the f-strings
\* and the substituted values, each one token.
NoneVal == [type |-> "NoneType"]
Str(s) == [type |-> "str", val |-> s]
Tuple(s) == [type |-> "tuple", val |-> s]
Dict(c, f) == [type |-> "dict", clickables |-> c, forms |-> f]
IsStr(v) == v.type = "str"

Return(v) == [kind |-> "return", val |-> v]
Raise(e) == [kind |-> "raise", exc |-> e]
NoOutcome == [kind |-> "none"]

\* str.replace(old, new) with old one token
RECURSIVE Replace(_, _, _)
Replace(s, old, new) ==
  IF s = << >> THEN << >>
  ELSE (IF Head(s) = old THEN new ELSE <<Head(s)>>) \o Replace(Tail(s), old, new)

FEEDBACK == "<<FEEDBACK>>"
INTERACTION == "<<INTERACTION>>"
URLSLOT == "<<URL>>"
\* (the section headers, Chinese text in the source, are written in English)
TOOL_OBSERVATION_TEMPLATE ==
  << "\n### feedback\n", FEEDBACK, "\n\n### buttons and forms\n", INTERACTION,
     "\n\n### screenshot\n", URLSLOT, "\n" >>

\* str(content) of the dict that page.evaluate returns
StrList(l) == <<"[">> \o l \o <<"]">>
StrDict(d) ==
  <<"{'clickables': ">> \o StrList(d.clickables) \o <<", 'forms': ">>
    \o StrList(d.forms) \o <<"}">>

\* the dicts page.evaluate may return
Contents == { Dict(<< >>, << >>), Dict(<<"{'type': 'a', 'text': 'Submit', 'href': ''}">>, << >>) }

\* the string the retry wrapper returns once its attempts are used up
FailStr_NoCount(fname, etype, msg) ==
  Str(<<"Failed in ", fname, ": ", etype, " - ">> \o msg)
FailStr(fname, etype, msg) ==
  Str(<<"Failed after ", ToString(retries), " attempts in ", fname, ": ", etype, " - ">> \o msg)

EngineMsg == <<"engine error">>

\* observation = TEMPLATE.replace(FEEDBACK, result).replace(INTERACTION, str(content)).replace(URL, url)
Observation_UrlLeft(result, content, shot) ==
  Replace(Replace(TOOL_OBSERVATION_TEMPLATE, FEEDBACK, result.val),
          INTERACTION, StrDict(content))
Observation(result, content, shot) ==
  Replace(Replace(Replace(TOOL_OBSERVATION_TEMPLATE, FEEDBACK, result.val),
                  INTERACTION, StrDict(content)),
          URLSLOT, <<shot>>)

(* ------------------------------- state -------------------------------- *)
VARIABLES
  browser_map,        \* server.py: session id -> Browser instance (a dict)
  browser_map_lock,   \* server.py: TRUE while the threading.Lock is held
  LAST_SCREEN_SHOT,   \* server.py: session id -> url or None (a dict)
  blocked,            \* the task whose lock.acquire() stops the loop's thread
  launches,           \* Browser instances constructed so far
  page,               \* Browser.page of each instance (0: None)
  url,                \* Browser.page.url of each instance
  page_history,       \* Browser.page_history of each instance
  npages,             \* pages the engine has opened so far
  task,               \* each coroutine: its position and its locals
  calls,              \* tool invocations issued so far
  initFails,          \* browser.init() failures so far
  popups              \* popups opened so far

vars == << browser_map, browser_map_lock, LAST_SCREEN_SHOT, blocked, launches,
           page, url, page_history, npages, task, calls, initFails, popups >>

IdleTask ==
  [ pc |-> "idle", sid |-> None, tool |-> None, arg |-> << >>, phase |-> None,
    browser |-> 0, target |-> 0, attempt |-> 0, tried |-> << >>, saved |-> NoURL,
    nested |-> FALSE, inner |-> 0, vurl |-> NoURL, newpage |-> 0, waits |-> 0,
    clicks |-> 0, pops |-> 0, result |-> NoneVal, content |-> NoneVal, ret |-> NoOutcome ]

\* The fields of a task:
\*   pc       the await it is suspended in ("acquire": inside lock.acquire())
\*   sid, tool, arg   CURRENT_SANDBOX_ID, the tool called, its other arguments
\*   phase    the line of call_browser_with_observation it is in (73, 74, 75)
\*   browser  the local `browser` (an instance)
\*   target   the page object the awaited engine call was made on
\*   attempt  the retry wrapper's loop variable
\*   tried    how the attempts of the method called last ended, in order: the
\*            exception raised, or "ok"; kept until the next method's first
\*            await is over
\*   saved    click_text's current_url, back's page_url_before
\*   nested, inner, vurl   back's inner visit_page: running, its loop
\*            variable; vurl is the url parameter of the running visit_page
\*   newpage  update_page_after_click's new_page (kept after the adoption)
\*   waits    popup-wait futures this call started that are still pending
\*   clicks   engine clicks of this call that succeeded (kept as tried is)
\*   pops     page_history.pop() calls of this call (kept as tried is)
\*   result, content   locals of call_browser_with_observation
\*   ret      how the call ended

EmptyDict == [x \in {} |-> NoneVal]

Init ==
  /\ browser_map = [x \in {} |-> 0]
  /\ browser_map_lock = FALSE
  /\ LAST_SCREEN_SHOT = EmptyDict
  /\ blocked = None
  /\ launches = 0
  /\ page = [b \in Instances |-> 0]
  /\ url = [b \in Instances |-> NoURL]
  /\ page_history = [b \in Instances |-> << >>]
  /\ npages = 0
  /\ task = [t \in Tasks |-> IdleTask]
  /\ calls = 0
  /\ initFails = 0
  /\ popups = 0

(* ----------------------------- helpers -------------------------------- *)
SetTask(t, r) == task' = [task EXCEPT ![t] = r]

\* dict[key] = value
Store(d, k, v) == [x \in DOMAIN d \cup {k} |-> IF x = k THEN v ELSE d[x]]

\* the arguments a caller may pass to a tool
ArgsOf(tool) ==
  CASE tool = "visit_page" -> { << <<"example.com">> >>, << SiteURL >>, << FileURL >> }
    [] tool = "click_text" -> { <<"Submit">> }
    [] tool = "fill_form" -> { <<"q", "tla">>, <<"q", URLSLOT>> }
    [] OTHER -> { << >> }

\* the first await of each Browser method
ToolPc(tool) ==
  CASE tool = "visit_page" -> "goto"
    [] tool \in {"scroll_up", "scroll_down"} -> "scroll"
    [] tool = "fill_form" -> "fill"
    [] tool = "click_text" -> "locate"
    [] tool = "back" -> "go_back"

\* the first await of the method a phase of call_browser_with_observation calls
PhasePc(r) ==
  CASE r.phase = "action" -> ToolPc(r.tool)
    [] r.phase = "content" -> "content_load"
    [] r.phase = "shot" -> "shot"

\* url.startswith(("http://", "https://"))
HasScheme(u) == u # << >> /\ Head(u) \in {"http://", "https://"}

\* visit_page lines 117-118
Normalize(u) == IF HasScheme(u) THEN u ELSE <<"http://">> \o u

\* task r awaits, at pc, an engine call made on self.page (pg: Browser.page)
Await(r, pc, pg) == [r EXCEPT !.pc = pc, !.target = pg[r.browser]]

\* The statements a method runs before its first await, at each attempt
\* (u: Browser.page.url, pg: Browser.page, as the calling segment leaves them):
\*   visit_page: url = normalized url
\*   click_text: the popup wait is started; current_url = self.page.url
\*   back:       page_url_before = self.page.url
Prologue(r, u, pg) ==
  LET a == Await(r, PhasePc(r), pg) IN
  IF r.phase # "action" THEN a
  ELSE CASE r.tool = "visit_page" -> [a EXCEPT !.vurl = Normalize(r.arg[1])]
         [] r.tool = "click_text" -> [a EXCEPT !.saved = u[r.browser], !.waits = r.waits + 1]
         [] r.tool = "back" -> [a EXCEPT !.saved = u[r.browser]]
         [] OTHER -> a

\* `with browser_map_lock:` finds the lock held
LockHeld_Never == FALSE
LockHeld == browser_map_lock

(***************************************************************************)
(* with_browser -> get_or_create_browser, called by task t whose locals    *)
(* are r, up to the first await that follows; u is Browser.page.url as the *)
(* calling segment leaves it.  Sets task, blocked, browser_map_lock and    *)
(* launches.                                                               *)
(*   - lock held: lock.acquire() stops the thread of the loop;             *)
(*   - id absent: Browser() is constructed and init() awaited, lock held;  *)
(*   - id present: the lock is released again, the entry is returned and   *)
(*     the method called.                                                  *)
(***************************************************************************)
get_or_create_browser(t, r, u, pg) ==
  IF LockHeld
  THEN /\ SetTask(t, [r EXCEPT !.pc = "acquire"])
       /\ blocked' = t
       /\ UNCHANGED << browser_map_lock, launches >>
  ELSE IF r.sid \notin DOMAIN browser_map
  THEN /\ SetTask(t, [r EXCEPT !.pc = "init", !.browser = launches + 1])
       /\ browser_map_lock' = TRUE
       /\ launches' = launches + 1
       /\ UNCHANGED blocked
  ELSE /\ SetTask(t, Prologue([r EXCEPT !.browser = browser_map[r.sid]], u, pg))
       /\ UNCHANGED << browser_map_lock, launches, blocked >>

\* the coroutine has ended with outcome o: its locals are gone
Ended(r, o) ==
  [IdleTask EXCEPT !.pc = "done", !.sid = r.sid, !.tool = r.tool, !.arg = r.arg, !.ret = o]

\* the loop runs task t, which waits at pc
Runs(t, pc) == blocked = None /\ task[t].pc = pc

engine == << page, url, page_history, npages, popups >>

(* ------------------------------ actions ------------------------------- *)
\* A call of a mutating tool arrives and runs to its first await.
CallTool(t, tools) ==
  /\ blocked = None
  /\ calls' = calls + 1
  /\ \E s \in Ids, tool \in tools :
       \E a \in ArgsOf(tool) :
         get_or_create_browser(t,
           [IdleTask EXCEPT !.sid = s, !.tool = tool, !.arg = a, !.phase = "action"],
           url, page)
  /\ UNCHANGED << browser_map, LAST_SCREEN_SHOT, engine, initFails >>

\* LAST_SCREEN_SHOT[CURRENT_SANDBOX_ID] = None
Consumed_Kept(d, s) == d
Consumed(d, s) == Store(d, s, NoneVal)

\* url = LAST_SCREEN_SHOT[CURRENT_SANDBOX_ID]: the value, or KeyError
Lookup_Default(d, s) == IF s \in DOMAIN d THEN Return(d[s]) ELSE Return(NoneVal)
Lookup(d, s) == IF s \in DOMAIN d THEN Return(d[s]) ELSE Raise("KeyError")

\* get_last_screenshot(id): a plain function, run by the loop in one piece.
get_last_screenshot(t) ==
  /\ blocked = None
  /\ \E s \in Ids :
       LET r == [IdleTask EXCEPT !.sid = s, !.tool = "get_last_screenshot"]
           o == Lookup(LAST_SCREEN_SHOT, s) IN
       /\ SetTask(t, Ended(r, o))
       /\ IF o.kind = "return"
          THEN LAST_SCREEN_SHOT' = Consumed(LAST_SCREEN_SHOT, s)
          ELSE UNCHANGED LAST_SCREEN_SHOT
  /\ UNCHANGED << browser_map, browser_map_lock, blocked, launches, engine, calls,
                  initFails >>

\* await browser.init() returns: the entry is published, the lock released,
\* and the tool's method called.
InitOk(t) ==
  /\ Runs(t, "init")
  /\ LET r == task[t] IN
     /\ page' = [page EXCEPT ![r.browser] = npages + 1]
     /\ npages' = npages + 1
     /\ url' = [url EXCEPT ![r.browser] = BlankURL]
     /\ browser_map' = Store(browser_map, r.sid, r.browser)
     /\ browser_map_lock' = FALSE
     /\ SetTask(t, Prologue(r, url', page'))
  /\ UNCHANGED << LAST_SCREEN_SHOT, blocked, launches, page_history, popups, calls, initFails >>

\* the except clause raises RuntimeError out of the with block: the lock is
\* released, line 42 was not reached
AfterInitFail_LockKept == [map |-> browser_map, lock |-> TRUE]
AfterInitFail == [map |-> browser_map, lock |-> FALSE]

\* await browser.init() raises: RuntimeError leaves the with block.
InitFail(t) ==
  /\ Runs(t, "init")
  /\ initFails < MaxInitFail
  /\ initFails' = initFails + 1
  /\ browser_map' = AfterInitFail.map
  /\ browser_map_lock' = AfterInitFail.lock
  /\ SetTask(t, Ended(task[t], Raise("RuntimeError")))
  /\ UNCHANGED << LAST_SCREEN_SHOT, blocked, launches, engine, calls >>

\* call_browser_with_observation line 74: the method has returned v
\* (the locals of the method that returned are gone)
Returned(t, r, v, u, pg) ==
  get_or_create_browser(t,
    [IdleTask EXCEPT !.sid = r.sid, !.tool = r.tool, !.arg = r.arg, !.result = v,
                     !.waits = r.waits, !.tried = r.tried, !.clicks = r.clicks,
                     !.pops = r.pops, !.newpage = r.newpage, !.phase = "content"], u, pg)

\* ... from an attempt that raised nothing
AfterAction(t, r, v, u, pg) ==
  Returned(t, [r EXCEPT !.tried = @ \o <<"ok">>], v, u, pg)

\* an exception leaves the tool call
Fault(t, e) ==
  /\ SetTask(t, Ended(task[t], Raise(e)))
  /\ UNCHANGED << browser_map_lock, launches, blocked >>

\* scroll_up / scroll_down: await self.page.keyboard.press(...)
ScrollOk(t) ==
  /\ Runs(t, "scroll")
  /\ AfterAction(t, task[t], NoneVal, url, page)
  /\ UNCHANGED << browser_map, LAST_SCREEN_SHOT, engine, calls, initFails >>

ScrollFail(t) ==
  /\ Runs(t, "scroll")
  /\ Fault(t, "Error")
  /\ UNCHANGED << browser_map, LAST_SCREEN_SHOT, engine, calls, initFails >>

\* get_webpage_content: await self._wait_for_load()
ContentLoadOk(t) ==
  /\ Runs(t, "content_load")
  /\ SetTask(t, Await([task[t] EXCEPT !.tried = << >>, !.clicks = 0, !.pops = 0], "content_eval", page))
  /\ UNCHANGED << browser_map, browser_map_lock, LAST_SCREEN_SHOT, blocked, launches,
                  engine, calls, initFails >>

\* get_webpage_content: await self.page.evaluate(...), then get_screenshot
ContentEvalOk(t) ==
  /\ Runs(t, "content_eval")
  /\ \E c \in Contents :
       get_or_create_browser(t, [task[t] EXCEPT !.content = c, !.phase = "shot"], url, page)
  /\ UNCHANGED << browser_map, LAST_SCREEN_SHOT, engine, calls, initFails >>

\* either await of get_webpage_content raises
ContentFail(t) ==
  /\ blocked = None
  /\ task[t].pc \in {"content_load", "content_eval"}
  /\ Fault(t, "Error")
  /\ UNCHANGED << browser_map, LAST_SCREEN_SHOT, engine, calls, initFails >>

\* the retry wrapper's `attempt == retries - 1`
LastAttempt_Early(n) == n = retries - 2
LastAttempt(n) == n = retries - 1

\* `_, file_path = v`
Unpacks(v) == v.type = "tuple" /\ Len(v.val) = 2

\* upload_files(...)["data"]["url"]: the sink's answer holds a url or does not
UploadOutcomes == { Str(<<u>>) : u \in ShotURLs } \cup { NoneVal }

(***************************************************************************)
(* server.get_screenshot lines 51-55 and call_browser_with_observation     *)
(* lines 75-81, once Browser.get_screenshot has returned v: unpack, upload *)
(* (a blocking call), store the url, fill the template.                    *)
(***************************************************************************)
Capture(t, v) ==
  LET r == task[t] IN
  IF ~Unpacks(v)
  THEN Fault(t, "ValueError") /\ UNCHANGED LAST_SCREEN_SHOT
  ELSE \E up \in UploadOutcomes :
         IF ~IsStr(up)
         THEN Fault(t, "KeyError") /\ UNCHANGED LAST_SCREEN_SHOT
         ELSE /\ LAST_SCREEN_SHOT' = Store(LAST_SCREEN_SHOT, r.sid, up)
              /\ IF ~IsStr(r.result)
                 THEN Fault(t, "TypeError")
                 ELSE /\ SetTask(t, Ended(r,
                           Return(Str(Observation(r.result, r.content, up.val[1])))))
                      /\ UNCHANGED << browser_map_lock, launches, blocked >>

\* Browser.get_screenshot: await self.page.screenshot() and the save succeed
ShotOk(t) ==
  /\ Runs(t, "shot")
  /\ Capture(t, Tuple(<<"image", "tmp/screenshot.png">>))
  /\ UNCHANGED << browser_map, engine, calls, initFails >>

\* Browser.get_screenshot raises: the retry wrapper sleeps, or returns its string
ShotFail(t) ==
  /\ Runs(t, "shot")
  /\ IF LastAttempt(task[t].attempt)
     THEN Capture(t, FailStr("get_screenshot", "Error", EngineMsg))
     ELSE /\ SetTask(t, [task[t] EXCEPT !.pc = "sleep", !.tried = @ \o <<"Error">>])
          /\ UNCHANGED << browser_map_lock, launches, blocked, LAST_SCREEN_SHOT >>
  /\ UNCHANGED << browser_map, engine, calls, initFails >>

\* await asyncio.sleep(delay) returns: the next attempt starts
Sleep(t) ==
  /\ Runs(t, "sleep")
  /\ LET r == task[t] IN
     IF r.nested
     THEN SetTask(t, Await([r EXCEPT !.inner = r.inner + 1], "goto", page))
     ELSE SetTask(t, Prologue([r EXCEPT !.attempt = r.attempt + 1], url, page))
  /\ UNCHANGED << browser_map, browser_map_lock, LAST_SCREEN_SHOT, blocked, launches,
                  engine, calls, initFails >>

\* an engine call made on page tgt of instance b navigates it to new
\* (the url of a page that is no longer Browser.page is never read)
Navigate(b, tgt, new) ==
  url' = IF page[b] = tgt THEN [url EXCEPT ![b] = new] ELSE url

\* The retry wrapper of the tool's method caught exception e (message msg) in
\* task t with locals r: it sleeps, or after the last attempt returns its string.
Retry(t, r, fname, e, msg, u, pg) ==
  LET f == [r EXCEPT !.tried = @ \o <<e>>, !.result = NoneVal, !.newpage = 0] IN
  IF LastAttempt(r.attempt)
  THEN Returned(t, f, FailStr(fname, e, msg), u, pg)
  ELSE /\ SetTask(t, [f EXCEPT !.pc = "sleep"])
       /\ UNCHANGED << browser_map_lock, launches, blocked >>

\* visit_page returned v: to call_browser_with_observation, or to back,
\* which then returns None
VisitReturn(t, r, v, u, pg) ==
  AfterAction(t, r, IF r.nested THEN NoneVal ELSE v, u, pg)

\* visit_page: await self.page.goto(url)
GotoOk(t) ==
  /\ Runs(t, "goto")
  /\ LET r == task[t] IN
     /\ Navigate(r.browser, r.target, r.vurl)
     /\ SetTask(t, Await(r, "load", page))
  /\ UNCHANGED << browser_map, browser_map_lock, LAST_SCREEN_SHOT, blocked, launches,
                  page, page_history, npages, popups, calls, initFails >>

\* visit_page: await self._wait_for_load(); return the message
LoadOk(t) ==
  /\ Runs(t, "load")
  /\ LET r == task[t] IN
     VisitReturn(t, r, Str(<<"Successfully visited page: ">> \o r.vurl), url, page)
  /\ UNCHANGED << browser_map, LAST_SCREEN_SHOT, engine, calls, initFails >>

\* back's visit_page has used up its attempts: its wrapper returns the
\* failure string to back (it raises nothing)
VisitExhausted_Raises(t, r, u, pg) ==
  Retry(t, [r EXCEPT !.nested = FALSE], "back", "Error", EngineMsg, u, pg)
VisitExhausted(t, r, u, pg) ==
  VisitReturn(t, r, FailStr("visit_page", "Error", EngineMsg), u, pg)

\* either await of visit_page raises
VisitFail(t) ==
  /\ blocked = None
  /\ task[t].pc \in {"goto", "load"}
  /\ LET r == task[t] IN
     IF r.nested
     THEN IF LastAttempt(r.inner)
          THEN VisitExhausted(t, r, url, page)
          ELSE /\ SetTask(t, [r EXCEPT !.pc = "sleep"])
               /\ UNCHANGED << browser_map_lock, launches, blocked >>
     ELSE Retry(t, r, "visit_page", "Error", EngineMsg, url, page)
  /\ UNCHANGED << browser_map, LAST_SCREEN_SHOT, engine, calls, initFails >>

\* fill_form: await self.page.locator(...).fill(value); return the message
FillOk(t) ==
  /\ Runs(t, "fill")
  /\ LET r == task[t] IN
     AfterAction(t, r, Str(<<"Filled form element '", r.arg[1], "' with value '",
                             r.arg[2], "'">>), url, page)
  /\ UNCHANGED << browser_map, LAST_SCREEN_SHOT, engine, calls, initFails >>

FillFail(t) ==
  /\ Runs(t, "fill")
  /\ Retry(t, task[t], "fill_form", "Error", EngineMsg, url, page)
  /\ UNCHANGED << browser_map, LAST_SCREEN_SHOT, engine, calls, initFails >>

(* click_text under update_page_after_click under the retry wrapper.  The  *)
(* wrapper starts the popup wait (Prologue), then runs click_text.         *)

\* new_page_future.cancel(), or the future is done
Settled_Leak(r) == r
Settled(r) == [r EXCEPT !.waits = r.waits - 1]

NoElementMsg(text) == <<"No element found with text '", text, "'">>
ClickedMsg(text) == Str(<<"Clicked element with text '", text, "'">>)

\* await self.page.locator(...).all() returns elements
LocateFound(t) ==
  /\ Runs(t, "locate")
  /\ SetTask(t, [task[t] EXCEPT !.pc = "click"])
  /\ UNCHANGED << browser_map, browser_map_lock, LAST_SCREEN_SHOT, blocked, launches,
                  engine, calls, initFails >>

\* ... returns []: ValueError; the wrapper cancels the popup wait and re-raises
LocateNone(t) ==
  /\ Runs(t, "locate")
  /\ LET r == task[t] IN
     Retry(t, Settled(r), "wrapper", "ValueError", NoElementMsg(r.arg[1]), url, page)
  /\ UNCHANGED << browser_map, LAST_SCREEN_SHOT, engine, calls, initFails >>

\* locator(...).all() or elements[0].click() raises: cancel and re-raise
ClickFail(t) ==
  /\ blocked = None
  /\ task[t].pc \in {"locate", "click"}
  /\ Retry(t, Settled(task[t]), "wrapper", "Error", EngineMsg, url, page)
  /\ UNCHANGED << browser_map, LAST_SCREEN_SHOT, engine, calls, initFails >>

\* lines 209-210: page_history after a click made at url `before` that left
\* the page at url `after`
Recorded_Always(h, before, after) == Append(h, before)
Recorded(h, before, after) == IF before # after THEN Append(h, before) ELSE h

\* await elements[0].click() returns (the page may have navigated); lines
\* 209-211; then the wrapper awaits new_page_future
ClickOk(t) ==
  /\ Runs(t, "click")
  /\ LET r == task[t] IN
     /\ \E new \in {url[r.browser], NextURL, SiteURL} : Navigate(r.browser, r.target, new)
     /\ page_history' =
          [page_history EXCEPT ![r.browser] = Recorded(@, r.saved, url'[r.browser])]
     /\ SetTask(t, [r EXCEPT !.pc = "popup", !.clicks = r.clicks + 1,
                      !.result = ClickedMsg(r.arg[1])])
  /\ UNCHANGED << browser_map, browser_map_lock, LAST_SCREEN_SHOT, blocked, launches,
                  page, npages, popups, calls, initFails >>

\* await new_page_future returns a page; then await new_page.wait_for_load_state()
PopupOpens(t) ==
  /\ Runs(t, "popup")
  /\ popups < MaxPopups
  /\ popups' = popups + 1
  /\ npages' = npages + 1
  /\ SetTask(t, [Settled(task[t]) EXCEPT !.pc = "popload", !.newpage = npages + 1])
  /\ UNCHANGED << browser_map, browser_map_lock, LAST_SCREEN_SHOT, blocked, launches,
                  page, url, page_history, calls, initFails >>

\* await new_page_future raises TimeoutError after 3000 ms
PopupTimeout(t) ==
  /\ Runs(t, "popup")
  /\ Retry(t, Settled(task[t]), "wrapper", "TimeoutError", <<"Timeout 3000ms exceeded">>,
           url, page)
  /\ UNCHANGED << browser_map, LAST_SCREEN_SHOT, engine, calls, initFails >>

\* self.page = new_page
Adopt_Keep(b, p) == page
Adopt_Shared(b, p) == [x \in Instances |-> p]
Adopt(b, p) == [page EXCEPT ![b] = p]

\* wait_for_load_state() returns: self.page = new_page; return result
PopupLoadOk(t) ==
  /\ Runs(t, "popload")
  /\ LET r == task[t] IN
     /\ page' = Adopt(r.browser, r.newpage)
     /\ url' = [url EXCEPT ![r.browser] = NextURL]
     /\ AfterAction(t, r, r.result, url', page')
  /\ UNCHANGED << browser_map, LAST_SCREEN_SHOT, page_history, npages, popups, calls,
                  initFails >>

PopupLoadFail(t) ==
  /\ Runs(t, "popload")
  /\ Retry(t, task[t], "wrapper", "Error", EngineMsg, url, page)
  /\ UNCHANGED << browser_map, LAST_SCREEN_SHOT, engine, calls, initFails >>

(* back under the retry wrapper *)

\* await self.page.go_back(): the engine goes somewhere, or nowhere
GoBackOk(t) ==
  /\ Runs(t, "go_back")
  /\ LET r == task[t] IN
     /\ \E new \in {url[r.browser], BlankURL, SiteURL} : Navigate(r.browser, r.target, new)
     /\ SetTask(t, Await(r, "back_load", page))
  /\ UNCHANGED << browser_map, browser_map_lock, LAST_SCREEN_SHOT, blocked, launches,
                  page, page_history, npages, popups, calls, initFails >>

\* lines 222-223: the page is at u, was at `before`, the history is h
FallsBack_Unchanged(u, before, h) == u = before /\ h # << >>
FallsBack(u, before, h) == (u = BlankURL \/ u = before) /\ h # << >>

\* await self._wait_for_load() returns; lines 222-224
BackLoadOk(t) ==
  /\ Runs(t, "back_load")
  /\ LET r == task[t]
         b == r.browser
         h == page_history[b] IN
     IF FallsBack(url[b], r.saved, h)
     THEN /\ page_history' = [page_history EXCEPT ![b] = SubSeq(h, 1, Len(h) - 1)]
          /\ SetTask(t, Await([r EXCEPT !.nested = TRUE, !.inner = 0, !.pops = r.pops + 1,
                                         !.vurl = Normalize(h[Len(h)])], "goto", page))
          /\ UNCHANGED << browser_map_lock, launches, blocked >>
     ELSE /\ AfterAction(t, r, NoneVal, url, page)
          /\ UNCHANGED page_history
  /\ UNCHANGED << browser_map, LAST_SCREEN_SHOT, page, url, npages, popups, calls, initFails >>

\* go_back() or the load wait raises
BackFail(t) ==
  /\ blocked = None
  /\ task[t].pc \in {"go_back", "back_load"}
  /\ Retry(t, task[t], "back", "Error", EngineMsg, url, page)
  /\ UNCHANGED << browser_map, LAST_SCREEN_SHOT, engine, calls, initFails >>

Step(t) ==
  \/ InitOk(t) \/ InitFail(t)
  \/ GotoOk(t) \/ LoadOk(t) \/ VisitFail(t)
  \/ FillOk(t) \/ FillFail(t)
  \/ LocateFound(t) \/ LocateNone(t) \/ ClickFail(t) \/ ClickOk(t)
  \/ PopupOpens(t) \/ PopupTimeout(t) \/ PopupLoadOk(t) \/ PopupLoadFail(t)
  \/ GoBackOk(t) \/ BackLoadOk(t) \/ BackFail(t)
  \/ ScrollOk(t) \/ ScrollFail(t)
  \/ ContentLoadOk(t) \/ ContentEvalOk(t) \/ ContentFail(t)
  \/ ShotOk(t) \/ ShotFail(t)
  \/ Sleep(t)

(***************************************************************************)
(* Spec: one caller, who issues tool calls one after the other, up to      *)
(* MaxCalls of them to mutating tools.                                     *)
(***************************************************************************)
Caller == "t1"

Between(t) == task[t].pc \in {"idle", "done"}

Next ==
  \/ Between(Caller) /\ calls < MaxCalls /\ CallTool(Caller, MutatingTools)
  \/ Between(Caller) /\ get_last_screenshot(Caller)
  \/ Step(Caller)

Spec == Init /\ [][Next]_vars

(***************************************************************************)
(* ConcSpec: two callers, each issuing one call of a scroll tool; the loop *)
(* interleaves the two coroutines at their awaits.  FairConcSpec: the loop *)
(* resumes every coroutine whose await has completed (asyncio runs its     *)
(* ready queue in order, so no ready coroutine waits forever while the     *)
(* loop runs).                                                             *)
(***************************************************************************)
ScrollTools == {"scroll_up", "scroll_down"}

ScrollStep(t) ==
  \/ InitOk(t) \/ InitFail(t)
  \/ ScrollOk(t) \/ ScrollFail(t)
  \/ ContentLoadOk(t) \/ ContentEvalOk(t) \/ ContentFail(t)
  \/ ShotOk(t) \/ ShotFail(t)
  \/ Sleep(t)

ConcNext ==
  \E t \in Tasks :
    \/ task[t].pc = "idle" /\ CallTool(t, ScrollTools)
    \/ ScrollStep(t)

ConcSpec == Init /\ [][ConcNext]_vars

FairConcSpec == ConcSpec /\ \A t \in Tasks : WF_vars(ScrollStep(t))

(* ------------------------------ claims -------------------------------- *)

\* C1 (ConcSpec): for every session id and every interleaving of concurrent
\* get_or_create_browser calls, no launch for an id begins or is in progress
\* while the id has an entry or while another creation for it is in progress,
\* and a published entry is never replaced or removed.
C1_OneBrowserPerId ==
  /\ [](\A t \in Tasks : task[t].pc = "init" =>
          /\ task[t].sid \notin DOMAIN browser_map
          /\ \A u \in Tasks \ {t} :
               ~(task[u].pc = "init" /\ task[u].sid = task[t].sid))
  /\ [][\A s \in DOMAIN browser_map :
          s \in DOMAIN browser_map' /\ browser_map'[s] = browser_map[s]]_vars

\* two first calls for the same unseen id overlap: one creates, the other
\* has arrived at the lock
C1_Witness ==
  \E t, u \in Tasks :
    /\ t # u /\ task[t].pc = "init" /\ task[u].pc = "acquire"
    /\ task[u].sid = task[t].sid

\* the second call for id s arrived while the first is suspended in init()
SecondCallDuringInit(t, u) ==
  t # u /\ task[t].pc = "init" /\ task[u].pc = "acquire"

InGetOrCreate(t) == task[t].pc \in {"init", "acquire"}

\* C2 (FairConcSpec): when a second get_or_create_browser call for the same
\* unseen id starts while the first is suspended in browser.init(), both
\* calls eventually return.
C2_BothCallsReturn ==
  \A t, u \in Tasks :
    (SecondCallDuringInit(t, u) /\ task[u].sid = task[t].sid)
      ~> (~InGetOrCreate(t) /\ ~InGetOrCreate(u))

\* C3 (FairConcSpec): while the creation of session A is suspended in
\* browser.init(), a tool call for another session B is not blocked for ever:
\* both tool calls eventually complete.
C3_OtherSessionCompletes ==
  \A t, u \in Tasks :
    (SecondCallDuringInit(t, u) /\ task[u].sid # task[t].sid)
      ~> (task[t].pc = "done" /\ task[u].pc = "done")

\* C4 (Spec): every call of a mutating tool ends with an observation string
\* or with the session-creation error; no other exception leaves it.
C4_ObservationOrInitError ==
  \A t \in Tasks :
    (task[t].pc = "done" /\ task[t].tool \in MutatingTools) =>
      \/ task[t].ret.kind = "return" /\ IsStr(task[t].ret.val)
      \/ task[t].ret.kind = "raise" /\ task[t].ret.exc = "RuntimeError"

\* click_text has returned in task t (its attempts are still on record)
ClickReturned(t) ==
  /\ task[t].tool = "click_text" /\ task[t].phase = "content"
  /\ task[t].tried # << >>

AllTried(t, e) == \A i \in DOMAIN task[t].tried : task[t].tried[i] = e

\* C5 (Spec): when the click succeeds and no page opens within the popup
\* window (in every attempt made), click_text returns the click's message.
C5_SilentPopupTimeout ==
  \A t \in Tasks :
    (ClickReturned(t) /\ AllTried(t, "TimeoutError")) =>
      task[t].result = ClickedMsg(task[t].arg[1])

\* C6 (Spec): when click_text returns after a popup opened and loaded, the
\* session's page is the new page, and the extraction and the screenshot of
\* the same tool call are made on it.
C6_PopupAdopted ==
  \A t \in Tasks :
    LET r == task[t] IN
    (r.tool = "click_text" /\ r.newpage # 0 /\ r.phase \in {"content", "shot"}
       /\ r.pc # "acquire") =>
      page[r.browser] = r.newpage /\ r.target = r.newpage

C6_Witness ==
  \E t \in Tasks :
    task[t].tool = "click_text" /\ task[t].newpage # 0 /\ task[t].pc = "shot"

\* get_last_screenshot ran in this step, as task t
GetLastStep(t) ==
  /\ Between(t) /\ task'[t] # task[t]
  /\ task'[t].pc = "done" /\ task'[t].tool = "get_last_screenshot"

\* the screenshot of task t's tool call was stored in this step
CaptureStep(t) ==
  /\ task[t].pc = "shot" /\ task'[t].pc = "done"
  /\ LAST_SCREEN_SHOT' # LAST_SCREEN_SHOT

\* C7 (Spec): a capture for session s stores the url that its observation
\* shows; get_last_screenshot(s) returns the stored url and empties the slot
\* (so a further one returns None); nothing else changes the slot of s.
C7_TwoPhaseHandoff ==
  [][\A t \in Tasks :
       LET s == task'[t].sid IN
       /\ (GetLastStep(t) /\ s \in DOMAIN LAST_SCREEN_SHOT) =>
            /\ task'[t].ret = Return(LAST_SCREEN_SHOT[s])
            /\ LAST_SCREEN_SHOT' = [LAST_SCREEN_SHOT EXCEPT ![s] = NoneVal]
       /\ (CaptureStep(t) /\ task'[t].ret.kind = "return") =>
            LET obs == task'[t].ret.val.val IN
            /\ IsStr(LAST_SCREEN_SHOT'[s])
            /\ <<obs[Len(obs) - 1]>> = LAST_SCREEN_SHOT'[s].val
       /\ \A x \in DOMAIN LAST_SCREEN_SHOT' :
            (x \notin DOMAIN LAST_SCREEN_SHOT \/ LAST_SCREEN_SHOT'[x] # LAST_SCREEN_SHOT[x])
              => \E u \in Tasks : task'[u].sid = x /\ (GetLastStep(u) \/ CaptureStep(u))
    ]_vars

\* a get_last_screenshot that found the slot emptied by an earlier one
C7_Witness ==
  \E t \in Tasks :
    /\ task[t].pc = "done" /\ task[t].tool = "get_last_screenshot"
    /\ task[t].ret = Return(NoneVal)
    /\ LAST_SCREEN_SHOT[task[t].sid] = NoneVal

\* C8 (Spec): get_last_screenshot(id) returns a url or None for every id and
\* every history; it never raises.
C8_GetLastNeverFaults ==
  \A t \in Tasks :
    (task[t].pc = "done" /\ task[t].tool = "get_last_screenshot") =>
      task[t].ret.kind = "return"

\* C9 (ConcSpec): when browser.init() fails, no entry for the id is published,
\* RuntimeError reaches the caller and the lock is free again.
C9_InitFailureLeavesIdAbsent ==
  [][\A t \in Tasks :
       (task[t].pc = "init" /\ task'[t].pc = "done") =>
         /\ browser_map' = browser_map
         /\ task[t].sid \notin DOMAIN browser_map'
         /\ ~browser_map_lock' /\ blocked' = None
         /\ task'[t].ret = Raise("RuntimeError")
    ]_vars

\* after a failed creation for an id, a later call launched afresh for it
C9_Witness ==
  \E t, u \in Tasks :
    /\ task[t].pc = "done" /\ task[t].ret = Raise("RuntimeError")
    /\ task[u].sid = task[t].sid /\ task[u].browser # 0
    /\ task[t].sid \in DOMAIN browser_map
    /\ browser_map[task[t].sid] = task[u].browser

BackLoadReturned(t) ==
  /\ blocked = None /\ task[t].pc = "back_load" /\ task'[t] # task[t]
  /\ ~(/\ Len(task'[t].tried) = Len(task[t].tried) + 1
        /\ task'[t].tried[Len(task'[t].tried)] = "Error")

C12_UploadFailureStillObserved ==
  \A t \in Tasks :
    (task[t].pc = "done" /\ task[t].tool \in MutatingTools) =>
      task[t].ret # Raise("KeyError")

\* the header of section i of the template, and where it is in observation o
Header(i) == TOOL_OBSERVATION_TEMPLATE[2 * i - 1]
Places(o, tok) == { k \in DOMAIN o : o[k] = tok }

\* C13 (Spec): every observation a mutating tool returns holds the three
\* section headers once each, in the order feedback, interactive elements,
\* screenshot, each followed by a non-empty text, and none of the three
\* placeholders.
C13_ThreeSections ==
  \A t \in Tasks :
    (task[t].pc = "done" /\ task[t].tool \in MutatingTools
       /\ task[t].ret.kind = "return") =>
      LET o == task[t].ret.val.val IN
      /\ \A i \in 1..3 : Cardinality(Places(o, Header(i))) = 1
      /\ \E p1 \in Places(o, Header(1)), p2 \in Places(o, Header(2)),
            p3 \in Places(o, Header(3)) :
           /\ p1 = 1 /\ p1 + 1 < p2 /\ p2 + 1 < p3 /\ p3 + 1 < Len(o)
           /\ o[Len(o)] = TOOL_OBSERVATION_TEMPLATE[Len(TOOL_OBSERVATION_TEMPLATE)]
      /\ \A k \in DOMAIN o : o[k] \notin {FEEDBACK, INTERACTION, URLSLOT}

\* an observation whose feedback is a failure string and whose lists of
\* clickables and forms are empty
C13_Witness ==
  \E t \in Tasks, u \in ShotURLs :
    /\ task[t].pc = "done"
    /\ task[t].ret = Return(Str(Observation(FailStr("fill_form", "Error", EngineMsg),
                                             Dict(<< >>, << >>), u)))

\* the url u carries a scheme (a url is the sequence of its pieces, the scheme
\* first when it has one)
Schemes == {"http://", "https://", "file://"}
CarriesScheme(u) == u # << >> /\ Head(u) \in Schemes

\* C14 (Spec): visit_page(url) navigates to "http://" + url when url has no
\* scheme, and to url as it is when url carries a scheme.
C14_SchemeNormalised ==
  \A t \in Tasks :
    LET r == task[t] IN
    (r.tool = "visit_page" /\ r.phase = "action" /\ r.pc \in {"goto", "load", "sleep"}) =>
      r.vurl = IF CarriesScheme(r.arg[1]) THEN r.arg[1] ELSE <<"http://">> \o r.arg[1]

\* the methods under the retry wrapper, by tool, with the name the wrapper
\* reports, and the description of each error
Wrapped == {"visit_page", "fill_form", "click_text", "back"}
NameOf(tool) == IF tool = "click_text" THEN "wrapper" ELSE tool
DescriptionOf(r, e) ==
  CASE e = "ValueError" -> NoElementMsg(r.arg[1])
    [] e = "TimeoutError" -> <<"Timeout 3000ms exceeded">>
    [] OTHER -> EngineMsg

\* the loop variable of the wrapper that task record r is in
Attempt(r) == IF r.nested THEN r.inner ELSE r.attempt

\* C15 (Spec): the retry wrapper makes at most `retries` attempts; an attempt
\* that succeeds is the last one and its result is returned; the wrapper
\* sleeps only after a failed attempt that is not the last; and when all
\* `retries` attempts have failed it returns (the call goes on to the
\* extraction) the string that holds the number of attempts and the type and
\* description of the last error.
C15_RetryWrapper ==
  \A t \in Tasks :
    LET r == task[t]
        n == Len(r.tried) IN
    /\ n <= retries
    /\ \A i \in 1..n : r.tried[i] = "ok" => i = n
    /\ r.pc = "sleep" =>
         /\ Attempt(r) < retries - 1
         /\ r.nested \/ (n = r.attempt + 1 /\ r.tried[n] # "ok")
    /\ (r.phase = "content" /\ r.pc = "content_load" /\ r.tool \in Wrapped) =>
         /\ n >= 1
         /\ r.tried[n] = "ok" =>
              (IsStr(r.result) => r.result.val[1] # "Failed after ")
         /\ r.tried[n] # "ok" =>
              /\ n = retries
              /\ r.result = Str(<<"Failed after ", ToString(retries), " attempts in ",
                                  NameOf(r.tool), ": ", r.tried[n], " - ">>
                                 \o DescriptionOf(r, r.tried[n]))

\* all the attempts of a method failed and its failure string was returned
C15_Witness ==
  \E t \in Tasks :
    /\ task[t].phase = "content" /\ task[t].pc = "content_load"
    /\ task[t].tool = "fill_form"
    /\ task[t].tried = <<"Error", "Error", "Error">>

\* the popup waits pending for session s: those of all the calls made for it
RECURSIVE SumWaits(_, _)
SumWaits(S, s) ==
  IF S = {} THEN 0
  ELSE LET t == CHOOSE x \in S : TRUE IN
       (IF task[t].sid = s THEN task[t].waits ELSE 0) + SumWaits(S \ {t}, s)

Acts(t) == task'[t] # task[t]
Slot(d, s) == IF s \in DOMAIN d THEN <<d[s]>> ELSE << >>

\* C17 (Spec): a step of a tool call for one session changes neither the
\* page, the page's url, the page_history nor the LAST_SCREEN_SHOT slot of any
\* other session; and the page of a browser is set only by a call running for
\* the session the browser belongs to.
C17_SessionIsolation ==
  [][\A t \in Tasks :
       Acts(t) =>
         /\ \A s \in Ids \ {task'[t].sid} :
              /\ Slot(LAST_SCREEN_SHOT', s) = Slot(LAST_SCREEN_SHOT, s)
              /\ Slot(browser_map', s) = Slot(browser_map, s)
              /\ s \in DOMAIN browser_map =>
                   LET b == browser_map[s] IN
                   /\ page'[b] = page[b] /\ url'[b] = url[b]
                   /\ page_history'[b] = page_history[b]
         /\ \A b \in Instances :
              page'[b] # page[b] =>
                /\ task'[t].sid \in DOMAIN browser_map'
                /\ browser_map'[task'[t].sid] = b
    ]_vars

\* a click_text for one session has adopted a popup while the other session
\* has a browser of its own
C17_Witness ==
  \E t \in Tasks :
    /\ task[t].tool = "click_text" /\ task[t].newpage # 0
    /\ page[task[t].browser] = task[t].newpage
    /\ DOMAIN browser_map = Ids

\* C18 (Spec): page_history of a browser changes only when click_text's click
\* returns (the url from before the click is appended, and it is exactly
\* when the page's url differs from it) and when back pops its last entry;
\* no step of visit_page, scroll_up, scroll_down, fill_form,
\* get_webpage_content or get_screenshot changes it; and the page of a
\* browser, once init() has set it, is replaced only by a click_text that
\* adopts the popup it waited for.
C18_HistoryFrame ==
  [][\A t \in Tasks :
       LET r == task[t]
           b == r.browser IN
       Acts(t) =>
         /\ \A x \in Instances :
              /\ page_history'[x] # page_history[x] =>
                   /\ x = b /\ r.phase = "action"
                   /\ \/ /\ r.tool = "click_text" /\ r.pc = "click"
                         /\ page_history'[x] = Append(page_history[x], r.saved)
                      \/ /\ r.tool = "back" /\ r.pc = "back_load"
                         /\ page_history[x] # << >>
                         /\ page_history'[x] =
                              SubSeq(page_history[x], 1, Len(page_history[x]) - 1)
              /\ page'[x] # page[x] =>
                   \/ r.pc = "init" /\ x = b /\ page[x] = 0
                   \/ /\ r.tool = "click_text" /\ r.pc = "popload" /\ x = b
                      /\ page'[x] = r.newpage
         /\ (r.pc = "click" /\ task'[t].pc = "popup") =>
              (page_history'[b] # page_history[b] <=> url'[b] # r.saved)
    ]_vars

\* a click that took the page to another url has recorded the url it left
C18_Witness ==
  \E t \in Tasks :
    LET h == page_history[task[t].browser] IN
    /\ task[t].tool = "click_text" /\ task[t].pc = "popup"
    /\ h # << >> /\ h[Len(h)] = task[t].saved
    /\ url[task[t].browser] # task[t].saved

\* C19 (Spec): one call of click_text makes at most one engine click that
\* succeeds, whatever its attempts.
C19_ClicksOnce == \A t \in Tasks : task[t].clicks <= 1

\* C20 (Spec): one call of back pops page_history at most once, however
\* go_back, the load wait and the inner visit_page fail and are retried.
C20_PopsOnce == \A t \in Tasks : task[t].pops <= 1

\* back has returned from an attempt that popped a url, after an attempt
\* that failed, and page_history still holds a url
C20_Witness ==
  \E t \in Tasks :
    /\ task[t].tool = "back" /\ task[t].phase = "content" /\ task[t].pops = 1
    /\ task[t].tried = <<"Error", "ok">>
    /\ page_history[task[t].browser] # << >>

\* C21 (Spec): every session id that has an entry in LAST_SCREEN_SHOT has a
\* browser published in browser_map.
C21_ScreenshotsOfPublished == DOMAIN LAST_SCREEN_SHOT \subseteq DOMAIN browser_map

\* get_last_screenshot was called for an id that has no entry, while the
\* other id has one
C21_Witness ==
  \E t \in Tasks :
    /\ task[t].pc = "done" /\ task[t].tool = "get_last_screenshot"
    /\ task[t].sid \notin DOMAIN LAST_SCREEN_SHOT
    /\ DOMAIN LAST_SCREEN_SHOT # {}

\* C22 (Spec): in every observation returned, the text between the feedback
\* header and the next header is the action's result string as it was, also
\* when the result holds the placeholder of a later slot (here "<<URL>>",
\* echoed from the value given to fill_form).
C22_FeedbackVerbatim ==
  [][\A t \in Tasks :
       (CaptureStep(t) /\ task'[t].ret.kind = "return") =>
         LET o == task'[t].ret.val.val
             res == task[t].result.val IN
         /\ Len(o) >= Len(res) + 2
         /\ SubSeq(o, 1, Len(res) + 2) = <<Header(1)>> \o res \o <<Header(2)>>
    ]_vars

====
